---------------------------- MODULE Spec2Model ----------------------------
(***************************************************************************)
(* Text layout of the post-to-video renderer (main.py): greedy word wrap,  *)
(* the height estimator, the binary search for the body font size, the     *)
(* vertical stacking done by generate_image, and the batch loop of main.   *)
(*                                                                         *)
(* A text is a sequence of one-character strings.  Every vertical measure  *)
(* (a height, a y cursor, a line spacing) is an integer number of          *)
(* 1/RatioDen pixels, so that "x * 0.2" is exact; horizontal measures are  *)
(* whole pixels.                                                           *)
(***************************************************************************)
EXTENDS Integers, Sequences, FiniteSets, TLC

VARIABLES
    CONFIG,       \* the module-level CONFIG dict (the layout entries)
    font_file,    \* the font behind CONFIG['font_path']: its metrics per size
    op,           \* the function last called, or the position of main
    text,         \* argument: content / text
    font_size,    \* argument: font_size
    max_width,    \* argument: max_width
    max_height,   \* argument: max_height
    lines,        \* the local list `lines` of the wrap loop last run
    ret,          \* the value last returned
    post,         \* argument of generate_image
    canvas,       \* what generate_image drew: the y of every block
    json_file,    \* the file behind --json
    posts,        \* main: the list load_posts returned
    next_post,    \* main: the index of the next post of the for loop
    success_count,
    attempted,    \* main: the indexes of the posts the loop body was entered for
    outcomes,     \* main: how each loop body ended
    error         \* the exception that left main, if any

callvars == <<text, font_size, max_width, max_height, lines, ret, post>>
mainvars == <<json_file, posts, next_post, success_count, attempted, outcomes, error>>
vars == <<CONFIG, font_file, op, callvars, canvas, mainvars>>

-----------------------------------------------------------------------------
(* Bounds of the model *)

MaxLen == 5        \* longest enumerated text, in characters
MaxSize == 3       \* largest font size
MaxWidth == 5      \* largest max_width, in pixels

MaxHeight == 6     \* largest max_height, in pixels
MaxExtra == 10     \* largest canvas height beyond MinCanvas, in pixels
MaxPosts == 2      \* longest list of posts

(* Program constants *)

RatioNum == 1      \* content_line_spacing_ratio = 0.2 = RatioNum / RatioDen
RatioDen == 5
MaxProbes == 10    \* for _ in range(10)
TitleLineSpacing == 10   \* line_spacing=10 of the title block

Sizes == 1..MaxSize

-----------------------------------------------------------------------------
(* Strings *)

Alphabet == {"A", "g", " "}

RECURSIVE StringsOfLen(_)
StringsOfLen(n) ==
    IF n = 0 THEN {<<>>}
    ELSE {Append(s, c) : s \in StringsOfLen(n - 1), c \in Alphabet}

Strings == UNION {StringsOfLen(n) : n \in 0..MaxLen}

\* "AAAA BBBB CCCC"
ExampleText == <<"A","A","A","A"," ","B","B","B","B"," ","C","C","C","C">>
\* "AAAA BBBB"
ExamplePrefix == <<"A","A","A","A"," ","B","B","B","B">>

\* str.split(): the maximal runs of non-whitespace characters, in order
RECURSIVE SplitFrom(_, _, _, _)
SplitFrom(s, i, words, cur) ==
    IF i > Len(s)
    THEN IF cur = <<>> THEN words ELSE Append(words, cur)
    ELSE IF s[i] = " "
         THEN SplitFrom(s, i + 1, IF cur = <<>> THEN words ELSE Append(words, cur), <<>>)
         ELSE SplitFrom(s, i + 1, words, Append(cur, s[i]))

split(s) == SplitFrom(s, 1, <<>>, <<>>)

\* ' '.join(words)
RECURSIVE join(_)
join(words) ==
    IF words = <<>> THEN <<>>
    ELSE IF Len(words) = 1 THEN Head(words)
    ELSE Head(words) \o <<" ">> \o join(Tail(words))

\* str.strip(): leading and trailing whitespace removed
RECURSIVE lstrip(_)
lstrip(s) == IF s # <<>> /\ Head(s) = " " THEN lstrip(Tail(s)) ELSE s

RECURSIVE rstrip(_)
rstrip(s) ==
    IF s # <<>> /\ s[Len(s)] = " " THEN rstrip(SubSeq(s, 1, Len(s) - 1)) ELSE s

strip(s) == rstrip(lstrip(s))

-----------------------------------------------------------------------------
(* The text measurer: ImageFont.truetype and the FreeTypeFont methods.      *)
(* A font file gives, for each size, the advance of one glyph unit, the    *)
(* ascent and the descent; `top` is the gap between the ascender line and  *)
(* the top of the ink.  Glyph "g" is narrow and reaches below the          *)
(* baseline, the capitals are wide and do not.                             *)

AdvValues == {1, 2}
DescentValues == {0, 1}
TopValues == {0, 1}

Fonts ==
    {[adv |-> a, ascent |-> [s \in Sizes |-> s], descent |-> [s \in Sizes |-> d], top |-> t] :
        a \in [Sizes -> AdvValues], d \in DescentValues, t \in TopValues}

GlyphUnits(c) == IF c \in {"g", " "} THEN 1 ELSE 2

\* ImageFont.truetype(CONFIG['font_path'], size)
truetype(file, size) ==
    [size |-> size, adv |-> file.adv[size], ascent |-> file.ascent[size],
     descent |-> file.descent[size], top |-> file.top]

\* font.getlength(s)
RECURSIVE SumUnits(_)
SumUnits(s) == IF s = <<>> THEN 0 ELSE GlyphUnits(Head(s)) + SumUnits(Tail(s))

getlength(font, s) == font.adv * SumUnits(s)

\* font.getmetrics()
getmetrics(font) == <<font.ascent, font.descent>>

HasInk(s) == \E i \in 1..Len(s) : s[i] # " "
HasDescender(s) == \E i \in 1..Len(s) : s[i] = "g"

\* font.getbbox(s): <<left, top, right, bottom>>
getbbox(font, s) ==
    IF ~HasInk(s) THEN <<0, 0, getlength(font, s), 0>>
    ELSE <<0, font.top, getlength(font, s),
           font.ascent + (IF HasDescender(s) THEN font.descent ELSE 0)>>

-----------------------------------------------------------------------------
(* calculate_content_height *)

\* the for loop over words: `lines` and `current_line` after it
RECURSIVE ContentWrapLoop(_, _, _, _, _)
ContentWrapLoop(words, font, width, ls, current_line) ==
    IF words = <<>> THEN [lines |-> ls, current_line |-> current_line]
    ELSE LET word == Head(words)
             test_line == join(Append(current_line, word))
             test_width == getlength(font, test_line)
         IN  IF test_width <= width
             THEN ContentWrapLoop(Tail(words), font, width, ls, Append(current_line, word))
             ELSE ContentWrapLoop(Tail(words), font, width,
                                  Append(ls, join(current_line)), <<word>>)

\* ContentLines without the flush of the last line
ContentLinesNoFlush(content, font, width) ==
    ContentWrapLoop(split(content), font, width, <<>>, <<>>).lines

\* `lines` when the height is computed
ContentLines(content, font, width) ==
    LET r == ContentWrapLoop(split(content), font, width, <<>>, <<>>)
    IN  IF r.current_line # <<>> THEN Append(r.lines, join(r.current_line)) ELSE r.lines

\* total_height for a list of lines
ContentHeightOf(ls, font) ==
    IF ls = <<>> THEN 0
    ELSE LET m == getmetrics(font)
             line_height == m[1] + m[2]
         IN  (Len(ls) * line_height * RatioDen) + ((Len(ls) - 1) * line_height * RatioNum)

calculate_content_height(file, content, size, width) ==
    LET font == truetype(file, size)
    IN  ContentHeightOf(ContentLines(content, font, width), font)

-----------------------------------------------------------------------------
(* draw_wrapped_text *)

\* DrawWrapLoop breaking the line at test_line_width = width too
RECURSIVE DrawWrapLoopStrict(_, _, _, _, _)
DrawWrapLoopStrict(words, font, width, ls, line) ==
    IF words = <<>> THEN [lines |-> ls, line |-> line]
    ELSE LET word == Head(words)
             test_line == strip(line \o <<" ">> \o word)
             test_line_width == getlength(font, test_line)
         IN  IF test_line_width < width
             THEN DrawWrapLoopStrict(Tail(words), font, width, ls, test_line)
             ELSE DrawWrapLoopStrict(Tail(words), font, width, Append(ls, line), word)

\* the for loop over words: `lines` and `line` after it
RECURSIVE DrawWrapLoop(_, _, _, _, _)
DrawWrapLoop(words, font, width, ls, line) ==
    IF words = <<>> THEN [lines |-> ls, line |-> line]
    ELSE LET word == Head(words)
             test_line == strip(line \o <<" ">> \o word)
             test_line_width == getlength(font, test_line)
         IN  IF test_line_width <= width
             THEN DrawWrapLoop(Tail(words), font, width, ls, test_line)
             ELSE DrawWrapLoop(Tail(words), font, width, Append(ls, line), word)

\* `lines` when the drawing starts
DrawLines(txt, font, width) ==
    LET r == DrawWrapLoop(split(txt), font, width, <<>>, <<>>)
    IN  IF r.line # <<>> THEN Append(r.lines, r.line) ELSE r.lines

\* the drawing loop: the y cursor after the lines
RECURSIVE DrawCursor(_, _, _, _)
DrawCursor(ls, font, y, line_spacing) ==
    IF ls = <<>> THEN y
    ELSE DrawCursor(Tail(ls), font,
                    y + getbbox(font, Head(ls))[4] * RatioDen + line_spacing, line_spacing)

draw_wrapped_text(txt, y, font, width, line_spacing) ==
    DrawCursor(DrawLines(txt, font, width), font, y, line_spacing)

-----------------------------------------------------------------------------
(* find_optimal_font_size *)

\* the height test of one probe
Fits(file, content, size, width, height) ==
    calculate_content_height(file, content, size, width) <= height

\* NextLow with low = mid
NextLowStuck(low, mid, fits) == IF fits THEN mid ELSE low

\* NextBest recording every probe
NextBestAlways(best_size, mid, fits) == mid

\* NextBest with best_size = mid + 1
NextBestOff(best_size, mid, fits) == IF fits THEN mid + 1 ELSE best_size

\* the bounds of the next iteration
NextLow(low, mid, fits) == IF fits THEN mid + 1 ELSE low
NextHigh(high, mid, fits) == IF fits THEN high ELSE mid - 1
NextBest(best_size, mid, fits) == IF fits THEN mid ELSE best_size

\* the for loop: iteration i with the locals low, high, best_size
RECURSIVE SearchLoop(_, _, _, _, _, _, _, _)
SearchLoop(file, content, width, height, low, high, best_size, i) ==
    IF i = MaxProbes \/ low > high
    THEN [best_size |-> best_size, probes |-> i, low |-> low, high |-> high]
    ELSE LET mid == (low + high) \div 2
             fits == Fits(file, content, mid, width, height)
         IN  SearchLoop(file, content, width, height,
                        NextLow(low, mid, fits), NextHigh(high, mid, fits),
                        NextBest(best_size, mid, fits), i + 1)

\* the search with its locals at the return
OptimalSearch(cfg, file, content, width, height) ==
    SearchLoop(file, content, width, height,
               cfg.content_font_size_min, cfg.content_font_size_max,
               cfg.content_font_size_min, 0)

find_optimal_font_size(cfg, file, content, width, height) ==
    OptimalSearch(cfg, file, content, width, height).best_size

-----------------------------------------------------------------------------
(* generate_image: the y cursor through the blocks *)

\* f"Post ID: {post['post_id']}"
PostIdText(p) == <<"P", "o", "s", "t", " ", "I", "D", ":", " ">> \o p.post_id

\* y_offset before the title
TitleStart(cfg) ==
    (cfg.image_top_margin + cfg.image_height + cfg.text_spacing.image_title) * RatioDen

\* AddGap without the gap
AddGapNone(y, gap) == y

\* y_offset after one more gap
AddGap(y, gap) == y + gap * RatioDen

\* post_id_height
PostIdHeight(cfg, file, p) ==
    LET post_id_bbox == getbbox(truetype(file, cfg.postid_font_size), PostIdText(p))
    IN  post_id_bbox[4] - post_id_bbox[2]

\* max_content_height
MaxContentHeight(cfg, y_offset, post_id_height) ==
    (cfg.canvas_size[2] * RatioDen - y_offset)
        - (post_id_height + cfg.text_spacing.content_postid) * RatioDen

generate_image(cfg, file, p) ==
    LET title_y == TitleStart(cfg)
        title_end == draw_wrapped_text(p.title, title_y, truetype(file, cfg.title_font_size),
                                       cfg.max_content_width, TitleLineSpacing * RatioDen)
        content_y == AddGap(title_end, cfg.text_spacing.title_content)
        post_id_height == PostIdHeight(cfg, file, p)
        max_content_height == MaxContentHeight(cfg, content_y, post_id_height)
        optimal_content_size ==
            find_optimal_font_size(cfg, file, p.content, cfg.max_content_width,
                                   max_content_height)
        content_font == truetype(file, optimal_content_size)
        line_spacing == optimal_content_size * RatioNum
        content_end == draw_wrapped_text(p.content, content_y, content_font,
                                         cfg.max_content_width, line_spacing)
        postid_y == AddGap(content_end, cfg.text_spacing.content_postid)
    IN  [title_y |-> title_y, title_end |-> title_end, content_y |-> content_y,
         max_content_height |-> max_content_height,
         optimal_content_size |-> optimal_content_size,
         content_end |-> content_end, postid_y |-> postid_y,
         postid_bottom |-> postid_y
             + getbbox(truetype(file, cfg.postid_font_size), PostIdText(p))[4] * RatioDen]

-----------------------------------------------------------------------------
(* Configurations, posts and the values before any call *)

\* CONFIG with the given canvas height, body font size range and text width.
\* The layout entries are those of the source at a small scale (the source has
\* a 1080 x 1920 canvas, sizes 20..40, a text width of 980): a few glyphs fill
\* a line and a few lines fill the canvas, so that wrapping, tight budgets and
\* overflow at the smallest size all occur with short texts.
Config(h, lo, hi, w) ==
    [canvas_size |-> <<w + 2, h>>,
     title_font_size |-> MaxSize,
     content_font_size_min |-> lo,
     content_font_size_max |-> hi,
     postid_font_size |-> 2,
     image_top_margin |-> 1,
     image_width |-> w + 1,
     image_height |-> 1,
     text_spacing |-> [image_title |-> 1, title_content |-> 1, content_postid |-> 1],
     max_content_width |-> w]

\* the canvas height that holds the image, a one-line title, the identifier
\* and the gaps between them
MinCanvas == TitleLineSpacing + MaxSize + 8

Ranges == {r \in Sizes \X Sizes : r[1] <= r[2]}

DefaultConfig == Config(MinCanvas + MaxExtra, 1, MaxSize, MaxWidth)

\* the fonts whose advance does not shrink as the size grows
ScalableFonts ==
    {f \in Fonts : \A a, b \in Sizes : a <= b => f.adv[a] <= f.adv[b]}

\* the fonts without descent and without a gap above the ink
PlainFonts == {f \in Fonts : f.top = 0 /\ \A a \in Sizes : f.descent[a] = 0}

DefaultFont == CHOOSE f \in ScalableFonts : f.top = 1 /\ f.descent[1] = 1 /\ f.adv[MaxSize] = 1

\* no file at CONFIG['font_path']
MissingFont == [missing |-> TRUE]

\* the texts of at most n characters
ShortTexts(n) == {s \in Strings : Len(s) <= n}

Titles == {<<"A">>, <<"g">>}
PostIds == {<<"A">>}
PostsOf(contents) ==
    {[title |-> t, content |-> c, post_id |-> p] :
        t \in Titles, c \in contents, p \in PostIds}

\* the texts whose words are single glyphs, and the other ones
PlainTexts(n) == {s \in ShortTexts(n) : \A k \in 1..Len(split(s)) : Len(split(s)[k]) = 1}
OtherTexts(n) == ShortTexts(n) \ PlainTexts(n)

None == <<"none">>
NoPost == [title |-> <<>>, content |-> <<>>, post_id |-> <<>>]

NoCall ==
    /\ text = <<>>
    /\ font_size = 1
    /\ max_width = 1
    /\ max_height = 0
    /\ lines = <<>>
    /\ ret = None
    /\ post = NoPost

NoMain ==
    /\ json_file = None
    /\ posts = <<>>
    /\ next_post = 0
    /\ success_count = 0
    /\ attempted = <<>>
    /\ outcomes = <<>>
    /\ error = None

-----------------------------------------------------------------------------
(* The two wrap loops, called on every text, width and font *)

InitWrap ==
    /\ CONFIG = DefaultConfig
    /\ font_file \in PlainFonts
    /\ op = "start"
    /\ \/ text \in Strings /\ max_width \in 1..MaxWidth /\ font_size \in Sizes
       \/ /\ text = ExampleText
          /\ font_size \in Sizes
          /\ max_width = getlength(truetype(font_file, font_size), ExamplePrefix)
    /\ max_height = 0
    /\ lines = <<>>
    /\ ret = None
    /\ post = NoPost
    /\ canvas = None
    /\ NoMain

CallCalculateContentHeight ==
    /\ op = "start"
    /\ op' = "calculate_content_height"
    /\ lines' = ContentLines(text, truetype(font_file, font_size), max_width)
    /\ ret' = calculate_content_height(font_file, text, font_size, max_width)
    /\ UNCHANGED <<CONFIG, font_file, text, font_size, max_width, max_height, post, canvas,
                   mainvars>>

CallDrawWrappedText ==
    /\ op = "start"
    /\ op' = "draw_wrapped_text"
    /\ lines' = DrawLines(text, truetype(font_file, font_size), max_width)
    /\ ret' = draw_wrapped_text(text, 0, truetype(font_file, font_size), max_width,
                                font_size * RatioNum)
    /\ UNCHANGED <<CONFIG, font_file, text, font_size, max_width, max_height, post, canvas,
                   mainvars>>

NextWrap == CallCalculateContentHeight \/ CallDrawWrappedText

SpecWrap == InitWrap /\ [][NextWrap]_vars

-----------------------------------------------------------------------------
(* The font size search, called on every text, width, budget and range *)

InitOpt ==
    /\ CONFIG \in {Config(MinCanvas + MaxExtra, r[1], r[2], MaxWidth) : r \in Ranges}
    /\ font_file \in PlainFonts
    /\ op = "start"
    /\ text \in ShortTexts(MaxLen - 2)
    /\ max_width \in (MaxWidth - 2)..MaxWidth
    /\ max_height \in {h * RatioDen : h \in 0..MaxHeight}
    /\ font_size = CONFIG.content_font_size_min
    /\ lines = <<>>
    /\ ret = None
    /\ post = NoPost
    /\ canvas = None
    /\ NoMain

CallFindOptimalFontSize ==
    /\ op = "start"
    /\ op' = "find_optimal_font_size"
    /\ ret' = OptimalSearch(CONFIG, font_file, text, max_width, max_height)
    /\ font_size' = find_optimal_font_size(CONFIG, font_file, text, max_width, max_height)
    /\ UNCHANGED <<CONFIG, font_file, text, max_width, max_height, lines, post, canvas,
                   mainvars>>

NextOpt == CallFindOptimalFontSize

SpecOpt == InitOpt /\ [][NextOpt]_vars

-----------------------------------------------------------------------------
(* One render: generate_image on every post, canvas height and range *)

InitRender ==
    /\ \/ post \in PostsOf(PlainTexts(MaxLen - 2))
       \/ post \in PostsOf(OtherTexts(MaxLen - 2))
    /\ CONFIG \in {Config(MinCanvas + e, r[1], r[2], MaxWidth) : e \in 0..MaxExtra, r \in Ranges}
    /\ font_file \in ScalableFonts
    /\ op = "start"
    /\ text = post.content
    /\ max_width = CONFIG.max_content_width
    /\ max_height = 0
    /\ font_size = CONFIG.content_font_size_min
    /\ lines = <<>>
    /\ ret = None
    /\ canvas = None
    /\ NoMain

CallGenerateImage ==
    /\ op = "start"
    /\ op' = "generate_image"
    /\ canvas' = generate_image(CONFIG, font_file, post)
    /\ font_size' = canvas'.optimal_content_size
    /\ max_height' = canvas'.max_content_height
    /\ lines' = DrawLines(text, truetype(font_file, font_size'), max_width)
    /\ ret' = canvas'.postid_y
    /\ UNCHANGED <<CONFIG, font_file, text, max_width, post, mainvars>>

NextRender == CallGenerateImage

SpecRender == InitRender /\ [][NextRender]_vars

-----------------------------------------------------------------------------
(* load_posts and main *)

required_fields == <<"title", "content", "post_id", "image">>
FieldSet == {required_fields[k] : k \in 1..Len(required_fields)}

censor_text(t) == t

\* `field not in post` holds for no field
Complete(p) == \A f \in FieldSet : f \in DOMAIN p

\* the first field of required_fields that the post lacks
FirstMissing(p) ==
    required_fields[CHOOSE k \in 1..Len(required_fields) :
        /\ required_fields[k] \notin DOMAIN p
        /\ \A j \in 1..(k - 1) : required_fields[j] \in DOMAIN p]

Censored(p) ==
    [p EXCEPT !["title"] = censor_text(@), !["content"] = censor_text(@)]

\* load_posts: sys.exit(1), the ValueError of the first incomplete post, or
\* the list of posts
load_posts(file) ==
    IF file.status \in {"missing", "invalid"} THEN [kind |-> "exit"]
    ELSE IF \E k \in 1..Len(file.posts) : ~Complete(file.posts[k])
    THEN LET k == CHOOSE k \in 1..Len(file.posts) :
                      /\ ~Complete(file.posts[k])
                      /\ \A j \in 1..(k - 1) : Complete(file.posts[j])
         IN  [kind |-> "raise",
              error |-> [type |-> "ValueError", post |-> k,
                         field |-> FirstMissing(file.posts[k])]]
    ELSE [kind |-> "return",
          posts |-> [k \in 1..Len(file.posts) |-> Censored(file.posts[k])]]

\* how one pass through the try block can end
Outcomes == {"ok", "generate_image raised", "create_video raised"}

\* NextPostAfter without the except clause
NextPostAbort(idx, outcome, n) == IF outcome = "ok" THEN idx + 1 ELSE n + 1

\* the post the for loop takes after one that ended with `outcome`
NextPostAfter(idx, outcome, n) == idx + 1

\* success_count after a post that ended with `outcome`
SuccessCountAfter(count, outcome) == IF outcome = "ok" THEN count + 1 ELSE count

BatchContents == {<<"g">>, <<"A", " ", "g">>}
JsonPosts ==
    {[f \in K |-> IF f = "content" THEN c ELSE IF f = "post_id" THEN <<"A">> ELSE <<"g">>] :
        K \in SUBSET FieldSet, c \in BatchContents}
JsonFiles ==
    {[status |-> "missing", posts |-> <<>>], [status |-> "invalid", posts |-> <<>>]}
        \cup {[status |-> "ok", posts |-> l] :
                l \in UNION {[1..n -> JsonPosts] : n \in 0..MaxPosts}}

Init ==
    /\ json_file \in JsonFiles
    /\ font_file \in {DefaultFont, MissingFont}
    /\ CONFIG = DefaultConfig
    /\ op = "start"
    /\ canvas = None
    /\ posts = <<>>
    /\ next_post = 0
    /\ success_count = 0
    /\ attempted = <<>>
    /\ outcomes = <<>>
    /\ error = None
    /\ NoCall

\* posts = load_posts(args.json)
MainLoadPosts ==
    /\ op = "start"
    /\ LET r == load_posts(json_file)
       IN  /\ op' = CASE r.kind = "exit" -> "exit"
                       [] r.kind = "raise" -> "uncaught"
                       [] OTHER -> "setup_fonts"
           /\ error' = IF r.kind = "raise" THEN r.error ELSE error
           /\ posts' = IF r.kind = "return" THEN r.posts ELSE posts
    /\ UNCHANGED <<CONFIG, font_file, callvars, canvas, json_file, next_post,
                   success_count, attempted, outcomes>>

\* fonts = setup_fonts(); success_count = 0
MainSetupFonts ==
    /\ op = "setup_fonts"
    /\ op' = IF font_file = MissingFont THEN "exit" ELSE "loop"
    /\ next_post' = 1
    /\ success_count' = 0
    /\ UNCHANGED <<CONFIG, font_file, callvars, canvas, json_file, posts, attempted,
                   outcomes, error>>

\* one pass through the body of `for post in posts`
MainProcessPost ==
    /\ op = "loop"
    /\ next_post <= Len(posts)
    /\ \E outcome \in Outcomes :
          /\ attempted' = Append(attempted, next_post)
          /\ outcomes' = Append(outcomes, outcome)
          /\ canvas' = IF outcome = "generate_image raised" THEN canvas
                       ELSE generate_image(CONFIG, font_file, posts[next_post])
          /\ success_count' = SuccessCountAfter(success_count, outcome)
          /\ next_post' = NextPostAfter(next_post, outcome, Len(posts))
    /\ UNCHANGED <<CONFIG, font_file, op, callvars, json_file, posts, error>>

\* the loop is over: the summary is printed
MainFinish ==
    /\ op = "loop"
    /\ next_post > Len(posts)
    /\ op' = "done"
    /\ UNCHANGED <<CONFIG, font_file, callvars, canvas, mainvars>>

Next == MainLoadPosts \/ MainSetupFonts \/ MainProcessPost \/ MainFinish

Spec == Init /\ [][Next]_vars

-----------------------------------------------------------------------------
(* Properties of the wrap loops (SpecWrap) *)

FontNow == truetype(font_file, font_size)
Wrapped == op \in {"calculate_content_height", "draw_wrapped_text"}

\* the words of a list of lines, in order
RECURSIVE WordsOf(_)
WordsOf(ls) == IF ls = <<>> THEN <<>> ELSE split(Head(ls)) \o WordsOf(Tail(ls))

TooWide(s) == getlength(FontNow, s) > max_width

\* C3: every emitted line fits max_width or is a single word, and the words of
\* the emitted lines, in order, are the whitespace-split words of the input.
C3_WrapCorrect ==
    Wrapped =>
        /\ \A k \in 1..Len(lines) : ~TooWide(lines[k]) \/ Len(split(lines[k])) = 1
        /\ WordsOf(lines) = split(text)

\* an overflowing one-word line among at least three emitted lines
C3_Witness ==
    /\ op = "draw_wrapped_text"
    /\ Len(lines) >= 3
    /\ \E k \in 1..Len(lines) : TooWide(lines[k])

\* C4: n >= 1 words, each wider than max_width, wrap to exactly n lines, and a
\* text without words wraps to zero lines.
C4_OneLinePerOverlongWord ==
    Wrapped =>
        LET words == split(text)
        IN  /\ (words # <<>> /\ \A k \in 1..Len(words) : TooWide(words[k]))
                => Len(lines) = Len(words)
            /\ words = <<>> => lines = <<>>

\* C9: the first word of each later line does not fit at the end of the line
\* before it, and "AAAA BBBB CCCC" at the width of "AAAA BBBB" wraps to
\* ["AAAA BBBB", "CCCC"].
C9_GreedyMaximal ==
    Wrapped =>
        /\ \A k \in 1..(Len(lines) - 1) :
              TooWide(join(Append(split(lines[k]), Head(split(lines[k + 1])))))
        /\ (text = ExampleText /\ max_width = getlength(FontNow, ExamplePrefix))
              => lines = <<ExamplePrefix, <<"C", "C", "C", "C">>>>

\* the example, wrapped by draw_wrapped_text
C9_Witness ==
    /\ op = "draw_wrapped_text"
    /\ text = ExampleText
    /\ lines = <<ExamplePrefix, <<"C", "C", "C", "C">>>>

-----------------------------------------------------------------------------
(* Properties of the font size search (SpecOpt) *)

SizeRange == CONFIG.content_font_size_min..CONFIG.content_font_size_max
HeightAt(size) == calculate_content_height(font_file, text, size, max_width)
FittingSizes == {size \in SizeRange : HeightAt(size) <= max_height}
Monotone == \A a, b \in SizeRange : a <= b => HeightAt(a) <= HeightAt(b)
Largest(S) == CHOOSE x \in S : \A y \in S : y <= x
Searched == op = "find_optimal_font_size"

\* C1: the size returned lies in [sizeMin, sizeMax] and at most 10 heights
\* were estimated.
C1_InRangeWithinProbes ==
    Searched => ret.best_size \in SizeRange /\ ret.probes <= 10

\* a search of two probes, for a text with words, that ends on sizeMax
C1_Witness ==
    /\ Searched
    /\ split(text) # <<>>
    /\ ret.probes >= 2
    /\ ret.best_size = CONFIG.content_font_size_max

\* C2: with heights non-decreasing in the size, the size returned is the
\* largest one that fits max_height, and sizeMin when none fits.
C2_LargestFitting ==
    (Searched /\ Monotone) =>
        ret.best_size = IF FittingSizes = {} THEN CONFIG.content_font_size_min
                        ELSE Largest(FittingSizes)

\* a search that ends strictly inside the range, above a size that fits and
\* below one that does not
C2_Witness ==
    /\ Searched
    /\ Monotone
    /\ ret.best_size > CONFIG.content_font_size_min
    /\ ret.best_size < CONFIG.content_font_size_max
    /\ ret.best_size = Largest(FittingSizes)

-----------------------------------------------------------------------------
(* Properties of one render (SpecRender) *)

Rendered == op = "generate_image"
BodyHeight ==
    calculate_content_height(font_file, post.content, canvas.optimal_content_size,
                             CONFIG.max_content_width)
BodyFits == BodyHeight <= canvas.max_content_height

\* C7 as stated: the body block at the chosen size is never taller than
\* max_content_height.
C7_BodyWithinBudget == Rendered => BodyFits

\* C7 amended: the body block at the chosen size is no taller than
\* max_content_height, unless the size chosen is sizeMin.
C7_BodyWithinBudgetAboveMin ==
    Rendered =>
        (canvas.optimal_content_size # CONFIG.content_font_size_min => BodyFits)

\* a body that fits at a size above sizeMin and not at the next size
C7_Witness ==
    /\ Rendered
    /\ canvas.optimal_content_size > CONFIG.content_font_size_min
    /\ canvas.optimal_content_size < CONFIG.content_font_size_max
    /\ BodyFits
    /\ calculate_content_height(font_file, post.content, canvas.optimal_content_size + 1,
                                CONFIG.max_content_width) > canvas.max_content_height

\* C8: when the body fits, the title's final cursor plus its gap is at or above
\* the body's start, and the body's final cursor plus its gap is at or above
\* the identifier's y.
C8_NoOverlap ==
    (Rendered /\ BodyFits) =>
        /\ canvas.title_end + CONFIG.text_spacing.title_content * RatioDen
              <= canvas.content_y
        /\ canvas.content_end + CONFIG.text_spacing.content_postid * RatioDen
              <= canvas.postid_y

\* a render with a title line and a body line that fits
C8_Witness ==
    /\ Rendered
    /\ BodyFits
    /\ canvas.title_end > canvas.title_y
    /\ canvas.content_end > canvas.content_y

\* C10: when the body's estimated height fits, the cursor advance of the body
\* is within max_content_height and the identifier line ends on the canvas.
C10_BudgetCoversDrawing ==
    (Rendered /\ BodyFits) =>
        /\ canvas.content_end - canvas.content_y <= canvas.max_content_height
        /\ canvas.postid_bottom <= CONFIG.canvas_size[2] * RatioDen

-----------------------------------------------------------------------------
(* Properties of main (Spec) *)

Indexes(seq) == {seq[k] : k \in 1..Len(seq)}

\* C5: a post that lacks a required field is reported, for that post, before
\* it is laid out, and every post of the file that has all the fields is
\* processed.
C5_MissingFieldIsolated ==
    /\ op = "uncaught" =>
          /\ ~Complete(json_file.posts[error.post])
          /\ error.field \notin DOMAIN json_file.posts[error.post]
    /\ \A k \in Indexes(attempted) : Complete(json_file.posts[k])
    /\ op \in {"done", "uncaught"} =>
          \A k \in 1..Len(json_file.posts) :
              Complete(json_file.posts[k]) => k \in Indexes(attempted)

\* C6: the loop attempts the posts once each, in list order, goes on after a
\* post that raised, and counts the posts that ended without an exception.
C6_PerPostIsolation ==
    /\ op \in {"loop", "done"} =>
          /\ attempted = [k \in 1..Len(attempted) |-> k]
          /\ Len(outcomes) = Len(attempted)
          /\ success_count = Cardinality({k \in 1..Len(outcomes) : outcomes[k] = "ok"})
    /\ op = "done" => Len(attempted) = Len(posts)

\* a batch whose first post raised and whose second post succeeded
C6_Witness ==
    /\ op = "done"
    /\ Len(posts) >= 2
    /\ outcomes[1] # "ok"
    /\ outcomes[2] = "ok"
    /\ success_count = 1

=============================================================================
